---- MODULE Spec2Model ----
(***************************************************************************)
(* Consul DNS service discovery (servicediscovery/discovery.go).           *)
(*                                                                         *)
(* A resolver turns a service name into (ip, port) pairs: one SRV query,   *)
(* then one A query per SRV target that is not in targetCache.             *)
(*                                                                         *)
(* Strings are sequences of one-character strings, so that concatenation,  *)
(* slicing and formatting are computed and not assumed.  The DNS transport *)
(* (DnsClient.Exchange) is the environment: every exchange answers with    *)
(* any response of a bounded set.                                          *)
(***************************************************************************)
EXTENDS Integers, Sequences, FiniteSets, TLC

----------------------------------------------------------------------------
(* Bounds of the model *)

\* longest answer section of an SRV response
MaxAnswers == 3
\* longest answer section of an A response
MaxARecords == 1
\* longest answer section of an SRV response when two callers run at once
MaxConcAnswers == 1
\* longest answer sections of the SRV response and of an A response where the A
\* response is kept in the state
MaxTraceAnswers == 2
MaxScan == 3
\* longest answer section of an SRV response where termination is checked
MaxLiveAnswers == 2

----------------------------------------------------------------------------
(* Values *)

\* the nil error
Nil == "nil"

\* the nil net.IP: a byte slice of no bytes
NoIP == <<>>

Callers == {1, 2}

\* dns.RcodeSuccess of github.com/miekg/dns
RcodeSuccess == 0
\* the response codes a server answers with: success and NXDOMAIN
Rcodes == {RcodeSuccess, 3}

\* errors the transport can return from Exchange
TransportErrors == {"i/o timeout"}

ErrSrvQuery == "Service lookup: DNS query did not succeed"
ErrTargetQuery == "Service lookup: Target DNS query did not succeed"
ErrNoA == "Service lookup: No A entry in DNS response"
ErrNoSrv == "Service lookup: No SRV entry in DNS response"

ServiceNames == { <<"a", "p", "i">>, <<"d", "b">> }

\* SRV targets as they come off the wire: fully qualified, trailing dot
Targets == { <<"h", "1", ".">>, <<"h", "2", ".">> }

\* the A field of a dns.A record: four bytes
IPs == { <<10, 0, 0, 1>>, <<10, 0, 0, 2>> }

\* the Port field of a dns.SRV record (uint16)
Ports == {8080, 8081}

\* the Priority field of a dns.SRV record (uint16); the code never reads it.
\* The instance on the second port is the preferred one (lower value).
PriorityOf(p) == IF p = 8080 THEN 2 ELSE 1

SRV(t, p, prio) == [type |-> "SRV", Target |-> t, Port |-> p, Priority |-> prio]
A(ip) == [type |-> "A", A |-> ip]
CNAME == [type |-> "CNAME"]

SrvRRs == { SRV(t, p, PriorityOf(p)) : t \in Targets, p \in Ports }
ARRs == { A(ip) : ip \in IPs }

\* sequences over S of length at most n
RECURSIVE SeqUpTo(_, _)
SeqUpTo(S, n) ==
    IF n = 0 THEN { <<>> }
    ELSE LET shorter == SeqUpTo(S, n - 1)
         IN  shorter \cup { Append(s, x) : s \in { t \in shorter : Len(t) = n - 1 }, x \in S }

\* what Exchange can return: (nil, err) or (msg, nil)
Responses(RRs, n) ==
    { [err |-> e, Rcode |-> RcodeSuccess, Answer |-> <<>>] : e \in TransportErrors }
    \cup { [err |-> Nil, Rcode |-> rc, Answer |-> ans] : rc \in Rcodes, ans \in SeqUpTo(RRs, n) }

SrvResponses == Responses(SrvRRs \cup {CNAME}, MaxAnswers)
AResponses == Responses(ARRs \cup {CNAME}, MaxARecords)

----------------------------------------------------------------------------
(* Pure functions *)

\* dns.Fqdn: append the trailing dot unless it is there
Fqdn(s) == IF Len(s) > 0 /\ s[Len(s)] = "." THEN s ELSE s \o <<".">>

\* srv.Target[:len(srv.Target)-1]
StripLast(s) == SubSeq(s, 1, Len(s) - 1)

Digit(d) == <<"0", "1", "2", "3", "4", "5", "6", "7", "8", "9">>[d + 1]

\* fmt.Sprintf("%d", n) for n >= 0
RECURSIVE Itoa(_)
Itoa(n) == IF n < 10 THEN <<Digit(n)>> ELSE Itoa(n \div 10) \o <<Digit(n % 10)>>

\* net.IP.String() of a four-byte address
IPString(ip) ==
    Itoa(ip[1]) \o <<".">> \o Itoa(ip[2]) \o <<".">> \o Itoa(ip[3]) \o <<".">> \o Itoa(ip[4])

ServiceInstance(ip, port) == [Ip |-> ip, Port |-> port]

\* resolveTarget after the exchange: the (ip, err) it returns for response resp
RECURSIVE LastA(_)
LastA(answer) ==
    IF answer = <<>> THEN NoIP
    ELSE IF answer[Len(answer)].type = "A" THEN answer[Len(answer)].A
    ELSE LastA(SubSeq(answer, 1, Len(answer) - 1))
RECURSIVE FirstA(_)
FirstA(answer) ==
    IF answer = <<>> THEN NoIP
    ELSE IF Head(answer).type = "A" THEN Head(answer).A
    ELSE FirstA(Tail(answer))

ResolveResponse(resp) ==
    IF resp.err # Nil THEN [ip |-> NoIP, err |-> resp.err]
    ELSE IF resp.Rcode # RcodeSuccess THEN [ip |-> NoIP, err |-> ErrTargetQuery]
    ELSE IF FirstA(resp.Answer) # NoIP THEN [ip |-> FirstA(resp.Answer), err |-> Nil]
    ELSE [ip |-> NoIP, err |-> ErrNoA]

\* val, ok := s.targetCache[target]
CacheHitNever(cache, t) == FALSE
CacheHit(cache, t) == t \in DOMAIN cache

\* s.targetCache[target] = ip
CacheStoreFqdn(cache, t, ip) ==
    [h \in DOMAIN cache \cup {Fqdn(t)} |-> IF h = Fqdn(t) THEN ip ELSE cache[h]]
CacheStoreReset(cache, t, ip) == [h \in {t} |-> ip]
CacheStore(cache, t, ip) ==
    [h \in DOMAIN cache \cup {t} |-> IF h = t THEN ip ELSE cache[h]]

\* the cache after resolveTarget got res from the exchange: only a found A record is stored
CacheAfterNegative(cache, t, res) ==
    CacheStore(cache, t, IF res.err = Nil THEN res.ip ELSE <<0, 0, 0, 0>>)
CacheAfter(cache, t, res) ==
    IF res.err = Nil THEN CacheStore(cache, t, res.ip) ELSE cache

\* the error DiscoverAllServiceInstances returns for SRV response resp, Nil to go on
SrvErrorMasked(resp) ==
    IF resp.err # Nil \/ resp.Rcode # RcodeSuccess THEN ErrSrvQuery ELSE Nil
SrvErrorNoRcode(resp) == resp.err
SrvError(resp) ==
    IF resp.err # Nil THEN resp.err
    ELSE IF resp.Rcode # RcodeSuccess THEN ErrSrvQuery
    ELSE Nil

\* the loop position after the record at i of n, whose target resolved with err:
\* the range loop goes on to the next record whatever err is
NextIndexStopAtFirst(i, n, err) == IF err = Nil THEN n + 1 ELSE i + 1
NextIndexRetry(i, n, err) == IF err # Nil THEN i ELSE i + 1
NextIndexBreak(i, n, err) == IF err # Nil THEN n + 1 ELSE i + 1
NextIndex(i, n, err) == i + 1

\* the range loop over n records is over when position i is past the last one
LoopDoneNever(i, n) == FALSE
LoopDone(i, n) == i > n

\* srv, ok := a.(*dns.SRV)
IsSRV(a) == a.type = "SRV"

\* the loop position after the record at i of n that is not an SRV record
SkipIndexStop(i, n) == n + 1
SkipIndex(i, n) == i + 1

\* the error returned after the loop, res being what resolveTarget returned in it
FinalErrorLast(res) ==
    IF \E i \in 1..Len(res) : res[i].called /\ res[i].err # Nil
      THEN ErrTargetQuery ELSE Nil
FinalError(res) == Nil

\* instances = append(instances, ServiceInstance{...})
PrependInstance(list, ip, port) == <<ServiceInstance(IPString(ip), Itoa(port))>> \o list
AppendInstance(list, ip, port) == Append(list, ServiceInstance(IPString(ip), Itoa(port)))

\* DiscoverService after DiscoverAllServiceInstances returned (list, err)
DiscoverServiceNoCheck(list, err) ==
    IF err # Nil THEN [ip |-> <<>>, port |-> <<>>, err |-> err]
    ELSE IF Len(list) = 0 THEN [ip |-> <<>>, port |-> <<>>, err |-> Nil]
    ELSE [ip |-> list[1].Ip, port |-> list[1].Port, err |-> Nil]
DiscoverServiceLast(list, err) ==
    IF err # Nil THEN [ip |-> <<>>, port |-> <<>>, err |-> err]
    ELSE IF Len(list) = 0 THEN [ip |-> <<>>, port |-> <<>>, err |-> ErrNoSrv]
    ELSE [ip |-> list[Len(list)].Ip, port |-> list[Len(list)].Port, err |-> Nil]
DiscoverServiceResult(list, err) ==
    IF err # Nil THEN [ip |-> <<>>, port |-> <<>>, err |-> err]
    ELSE IF Len(list) = 0 THEN [ip |-> <<>>, port |-> <<>>, err |-> ErrNoSrv]
    ELSE [ip |-> list[1].Ip, port |-> list[1].Port, err |-> Nil]

----------------------------------------------------------------------------
(* Construction: the functions of package net it uses, and its result *)

\* strings.IndexByte and strings.LastIndexByte, counting from 1; 0 when absent
IndexByte(s, ch) ==
    IF \E i \in 1..Len(s) : s[i] = ch
      THEN CHOOSE i \in 1..Len(s) : s[i] = ch /\ \A j \in 1..(i - 1) : s[j] # ch
      ELSE 0
LastIndexByte(s, ch) ==
    IF \E i \in 1..Len(s) : s[i] = ch
      THEN CHOOSE i \in 1..Len(s) : s[i] = ch /\ \A j \in (i + 1)..Len(s) : s[j] # ch
      ELSE 0

\* strings.Split(s, ch)
RECURSIVE Split(_, _)
Split(s, ch) ==
    LET i == IndexByte(s, ch)
    IN  IF i = 0 THEN <<s>>
        ELSE <<SubSeq(s, 1, i - 1)>> \o Split(SubSeq(s, i + 1, Len(s)), ch)

DecDigits == {"0", "1", "2", "3", "4", "5", "6", "7", "8", "9"}
HexDigits == DecDigits \cup {"a", "b", "c", "d", "e", "f"}

DigitValue(ch) == CHOOSE d \in 0..9 : Digit(d) = ch

RECURSIVE Atoi(_)
Atoi(s) == IF s = <<>> THEN 0 ELSE 10 * Atoi(SubSeq(s, 1, Len(s) - 1)) + DigitValue(s[Len(s)])

\* net.ParseIP(s) # nil, for dotted-decimal IPv4 text
IsIPv4(s) ==
    LET f == Split(s, ".")
    IN  /\ Len(f) = 4
        /\ \A k \in 1..4 :
               /\ Len(f[k]) \in 1..3
               /\ \A i \in 1..Len(f[k]) : f[k][i] \in DecDigits
               /\ Len(f[k]) > 1 => f[k][1] # "0"
               /\ Atoi(f[k]) <= 255

\* net.ParseIP(s) # nil, for IPv6 text of hexadecimal groups (no embedded IPv4)
IsIPv6(s) ==
    LET g == Split(s, ":")
        n == Len(g)
        empty == { k \in 1..n : g[k] = <<>> }
        \* the empty groups a "::" makes: one inside, two at an end, three for "::"
        elided == \/ \E k \in 2..(n - 1) : empty = {k}
                  \/ (n >= 3 /\ empty = {1, 2})
                  \/ (n >= 3 /\ empty = {n - 1, n})
                  \/ (n = 3 /\ empty = {1, 2, 3})
    IN  /\ n >= 3
        /\ \A k \in 1..n :
               Len(g[k]) <= 4 /\ \A i \in 1..Len(g[k]) : g[k][i] \in HexDigits
        /\ \/ (empty = {} /\ n = 8)
           \/ (elided /\ n - Cardinality(empty) <= 7)

\* net.ParseIP(host) == nil
NotIPLiteral(host) == ~(IsIPv4(host) \/ IsIPv6(host))

ErrMissingPort == "missing port in address"
ErrTooManyColons == "too many colons in address"
ErrMissingBracket == "missing ']' in address"
ErrUnexpectedOpen == "unexpected '[' in address"
ErrUnexpectedClose == "unexpected ']' in address"
ErrNoSuchHost == "no such host"
ErrNoHost == "No service discovery host could be resolved"

\* net.SplitHostPort
SplitHostPort(hostport) ==
    LET n == Len(hostport)
        i == LastIndexByte(hostport, ":")
        bad(e) == [host |-> <<>>, port |-> <<>>, err |-> e]
        bracketed == hostport[1] = "["
        end == IndexByte(hostport, "]")
        host == IF bracketed THEN SubSeq(hostport, 2, end - 1)
                ELSE SubSeq(hostport, 1, i - 1)
        \* what is searched for a stray '[' and a stray ']'
        afterOpen == IF bracketed THEN SubSeq(hostport, 2, n) ELSE hostport
        afterClose == IF bracketed THEN SubSeq(hostport, end + 1, n) ELSE hostport
    IN  IF i = 0 THEN bad(ErrMissingPort)
        ELSE IF bracketed /\ end = 0 THEN bad(ErrMissingBracket)
        ELSE IF bracketed /\ end = n THEN bad(ErrMissingPort)
        ELSE IF bracketed /\ end + 1 # i
          THEN IF hostport[end + 1] = ":" THEN bad(ErrTooManyColons) ELSE bad(ErrMissingPort)
        ELSE IF ~bracketed /\ IndexByte(host, ":") # 0 THEN bad(ErrTooManyColons)
        ELSE IF IndexByte(afterOpen, "[") # 0 THEN bad(ErrUnexpectedOpen)
        ELSE IF IndexByte(afterClose, "]") # 0 THEN bad(ErrUnexpectedClose)
        ELSE [host |-> host, port |-> SubSeq(hostport, i + 1, n), err |-> Nil]

\* net.JoinHostPort
JoinHostPort(host, port) ==
    IF IndexByte(host, ":") # 0 \/ IndexByte(host, "%") # 0
      THEN <<"[">> \o host \o <<"]", ":">> \o port
      ELSE host \o <<":">> \o port

\* the search suffix of every resolver
ServiceConsul == <<".", "s", "e", "r", "v", "i", "c", "e", ".", "c", "o", "n", "s", "u", "l">>

\* no resolver (the nil ServiceDiscovery), with the error returned and the
\* hostnames net.LookupHost was called with
NoResolver(e, lookups) ==
    [err |-> e, isNil |-> TRUE, dnsServer |-> <<>>, dnsSearch |-> <<>>, lookups |-> lookups]

\* the address taken from the ones net.LookupHost returned
LastAddress(addrs) == addrs[Len(addrs)]
FirstAddress(addrs) == addrs[1]

\* NewConsulServiceDiscovery(server), net.LookupHost answering with looked
NewConsulServiceDiscovery(server, looked) ==
    LET sp == SplitHostPort(server)
    IN  IF sp.err # Nil THEN NoResolver(sp.err, <<>>)
        ELSE IF NotIPLiteral(sp.host)
          THEN IF looked.err # Nil THEN NoResolver(looked.err, <<sp.host>>)
               ELSE IF Len(looked.addrs) = 0 THEN NoResolver(ErrNoHost, <<sp.host>>)
               ELSE [err |-> Nil, isNil |-> FALSE,
                     dnsServer |-> JoinHostPort(FirstAddress(looked.addrs), sp.port),
                     dnsSearch |-> ServiceConsul, lookups |-> <<sp.host>>]
        ELSE [err |-> Nil, isNil |-> FALSE, dnsServer |-> server,
              dnsSearch |-> ServiceConsul, lookups |-> <<>>]

----------------------------------------------------------------------------
(* State *)

VARIABLES
    dnsServer,    \* consulServiceDiscovery.dnsServer
    dnsSearch,    \* consulServiceDiscovery.dnsSearch
    targetCache,  \* consulServiceDiscovery.targetCache: bare hostname -> address
    pc,           \* per caller: "idle", "srv" (in the SRV exchange), "loop", "a" (in an A
                  \* exchange), "dead" (the process was aborted)
    op,           \* per caller: the operation in progress
    serviceName,  \* per caller: its argument
    r,            \* per caller: the SRV response (local r of DiscoverAllServiceInstances)
    idx,          \* per caller: position of the range loop over r.Answer
    instances,    \* per caller: the list under construction
    target,       \* per caller: the argument of resolveTarget
    ret,          \* per caller: what DiscoverAllServiceInstances returned
    sret,         \* per caller: what DiscoverService returned
    queries,      \* per caller: the exchanges its current call sent, in order
    resolved,     \* per caller: what resolveTarget returned for each record processed
    cache0,       \* per caller: targetCache when its current call started
    crashed,      \* the Go runtime has aborted the process on a concurrent map access
    config,       \* the argument of NewConsulServiceDiscovery
    lookupHost,   \* what net.LookupHost answers during construction
    newRet,       \* what NewConsulServiceDiscovery returned
    ra            \* per caller: the response of its last A exchange (local r of resolveTarget)

vars == <<dnsServer, dnsSearch, targetCache, pc, op, serviceName, r, idx, instances,
          target, ret, sret, queries, resolved, cache0, crashed, config, lookupHost,
          newRet, ra>>

resolver == <<dnsServer, dnsSearch>>
construction == <<config, lookupHost, newRet>>

Ops == {"DiscoverService", "DiscoverAllServiceInstances"}

\* nothing returned (yet); a returned list is nil or a list, empty or not
NoRet == [done |-> FALSE, isNil |-> TRUE, instances |-> <<>>, err |-> Nil]
NoSRet == [done |-> FALSE, ip |-> <<>>, port |-> <<>>, err |-> Nil]
NilList == [isNil |-> TRUE, items |-> <<>>]
List(items) == [isNil |-> FALSE, items |-> items]

NoResponse == [err |-> Nil, Rcode |-> RcodeSuccess, Answer |-> <<>>]

\* what NewConsulServiceDiscovery returned: the resolver is the three fields
NotConstructed == [done |-> FALSE, err |-> Nil, isNil |-> TRUE, lookups |-> <<>>]
Constructed(d) == [done |-> TRUE, err |-> d.err, isNil |-> d.isNil, lookups |-> d.lookups]

ConsulAddr == <<"1", "0", ".", "0", ".", "0", ".", "5", "3", ":", "8", "6", "0", "0">>
NoLookup == [err |-> ErrNoSuchHost, addrs |-> <<>>]

\* no caller has called anything
NoCalls ==
    /\ ra = [c \in Callers |-> NoResponse]
    /\ pc = [c \in Callers |-> "idle"]
    /\ op = [c \in Callers |-> "DiscoverAllServiceInstances"]
    /\ serviceName = [c \in Callers |-> <<>>]
    /\ r = [c \in Callers |-> NoResponse]
    /\ idx = [c \in Callers |-> 0]
    /\ instances = [c \in Callers |-> <<>>]
    /\ target = [c \in Callers |-> <<>>]
    /\ ret = [c \in Callers |-> NoRet]
    /\ sret = [c \in Callers |-> NoSRet]
    /\ queries = [c \in Callers |-> <<>>]
    /\ resolved = [c \in Callers |-> <<>>]
    /\ cache0 = [c \in Callers |-> <<>>]
    /\ crashed = FALSE

\* the resolver NewConsulServiceDiscovery("10.0.0.53:8600") returns
Init ==
    /\ config = ConsulAddr
    /\ lookupHost = NoLookup
    /\ newRet = Constructed(NewConsulServiceDiscovery(config, lookupHost))
    /\ dnsServer = NewConsulServiceDiscovery(config, lookupHost).dnsServer
    /\ dnsSearch = NewConsulServiceDiscovery(config, lookupHost).dnsSearch
    /\ targetCache = <<>>
    /\ NoCalls

\* the exchange of a question with the server: s.client.Exchange(m, s.dnsServer)
QueryElsewhere(qtype, name, server) ==
    [qtype |-> qtype, name |-> name, server |-> <<"8", ".", "8", ".", "8", ".", "8", ":", "5", "3">>]
Query(qtype, name, server) == [qtype |-> qtype, name |-> name, server |-> server]

----------------------------------------------------------------------------
(* Operations *)

\* return from DiscoverAllServiceInstances, and from DiscoverService around it
Return(c, list, err) ==
    /\ ret' = [ret EXCEPT ![c] =
                  [done |-> TRUE, isNil |-> list.isNil, instances |-> list.items, err |-> err]]
    /\ sret' = [sret EXCEPT ![c] =
                   IF op[c] = "DiscoverService"
                     THEN [done |-> TRUE] @@ DiscoverServiceResult(list.items, err)
                     ELSE NoSRet]
    /\ pc' = [pc EXCEPT ![c] = "idle"]

\* a caller enters DiscoverService or DiscoverAllServiceInstances
Call(c, o, name) ==
    /\ pc[c] = "idle"
    /\ op' = [op EXCEPT ![c] = o]
    /\ serviceName' = [serviceName EXCEPT ![c] = name]
    /\ instances' = [instances EXCEPT ![c] = <<>>]
    /\ r' = [r EXCEPT ![c] = NoResponse]
    /\ idx' = [idx EXCEPT ![c] = 0]
    /\ target' = [target EXCEPT ![c] = <<>>]
    /\ ret' = [ret EXCEPT ![c] = NoRet]
    /\ sret' = [sret EXCEPT ![c] = NoSRet]
    /\ queries' = [queries EXCEPT ![c] = <<>>]
    /\ resolved' = [resolved EXCEPT ![c] = <<>>]
    /\ cache0' = [cache0 EXCEPT ![c] = targetCache]
    /\ pc' = [pc EXCEPT ![c] = "srv"]
    /\ ra' = [ra EXCEPT ![c] = NoResponse]
    /\ UNCHANGED <<resolver, construction, crashed, targetCache>>

\* the SRV exchange and the checks of its result, the transport answering from S
SrvExchangeFrom(c, S) ==
    /\ pc[c] = "srv"
    /\ \E resp \in S :
         /\ r' = [r EXCEPT ![c] = resp]
         /\ queries' = [queries EXCEPT ![c] =
                Append(@, Query("SRV", Fqdn(serviceName[c] \o dnsSearch), dnsServer))]
         /\ IF SrvError(resp) # Nil
               THEN /\ Return(c, NilList, SrvError(resp))
                    /\ UNCHANGED idx
            ELSE /\ pc' = [pc EXCEPT ![c] = "loop"]
                 /\ idx' = [idx EXCEPT ![c] = 1]
                 /\ UNCHANGED <<ret, sret>>
    /\ UNCHANGED <<resolver, construction, ra, crashed, targetCache, op, serviceName, instances,
                   target, resolved, cache0>>

SrvExchange(c) == SrvExchangeFrom(c, SrvResponses)

\* one iteration of the loop over r.Answer, up to resolveTarget's cache lookup
NextRecord(c) ==
    /\ pc[c] = "loop"
    /\ idx[c] <= Len(r[c].Answer)
    /\ LET a == r[c].Answer[idx[c]]
           t == StripLast(a.Target)
       IN  IF ~IsSRV(a)
             THEN /\ idx' = [idx EXCEPT ![c] = SkipIndex(@, Len(r[c].Answer))]
                  /\ resolved' = [resolved EXCEPT ![c] = Append(@, [called |-> FALSE])]
                  /\ UNCHANGED <<pc, target, instances>>
           ELSE IF CacheHit(targetCache, t)
             THEN /\ target' = [target EXCEPT ![c] = t]
                  /\ instances' = [instances EXCEPT ![c] =
                         AppendInstance(@, targetCache[t], a.Port)]
                  /\ resolved' = [resolved EXCEPT ![c] = Append(@,
                         [called |-> TRUE, target |-> t, queried |-> FALSE,
                          ip |-> targetCache[t], err |-> Nil])]
                  /\ idx' = [idx EXCEPT ![c] = NextIndex(@, Len(r[c].Answer), Nil)]
                  /\ UNCHANGED pc
           ELSE /\ target' = [target EXCEPT ![c] = t]
                /\ pc' = [pc EXCEPT ![c] = "a"]
                /\ UNCHANGED <<idx, instances, resolved>>
    /\ ra' = [ra EXCEPT ![c] = NoResponse]
    /\ UNCHANGED <<resolver, construction, crashed, targetCache, op, serviceName, r, ret, sret,
                   queries, cache0>>

\* the A exchange of resolveTarget answered by resp, its result, and the rest
\* of the loop body
AExchangeOn(c, resp) ==
    /\ pc[c] = "a"
    /\ LET res == ResolveResponse(resp)
       IN  /\ queries' = [queries EXCEPT ![c] =
                  Append(@, Query("A", Fqdn(target[c]), dnsServer))]
           /\ resolved' = [resolved EXCEPT ![c] = Append(@,
                  [called |-> TRUE, target |-> target[c], queried |-> TRUE,
                   ip |-> res.ip, err |-> res.err])]
           /\ targetCache' = CacheAfter(targetCache, target[c], res)
           /\ IF res.err = Nil
                 THEN instances' = [instances EXCEPT ![c] =
                         AppendInstance(@, res.ip, r[c].Answer[idx[c]].Port)]
                 ELSE UNCHANGED instances
           /\ idx' = [idx EXCEPT ![c] = NextIndex(@, Len(r[c].Answer), res.err)]
    /\ pc' = [pc EXCEPT ![c] = "loop"]
    /\ UNCHANGED <<resolver, construction, crashed, op, serviceName, r, target, ret, sret,
                   cache0>>

\* the response is used up within the step
AExchange(c) ==
    \E resp \in AResponses : AExchangeOn(c, resp) /\ UNCHANGED ra

\* the loop is over: return instances, nil
Finish(c) ==
    /\ pc[c] = "loop"
    /\ LoopDone(idx[c], Len(r[c].Answer))
    /\ Return(c, List(instances[c]), FinalError(resolved[c]))
    /\ ra' = [ra EXCEPT ![c] = NoResponse]
    /\ UNCHANGED <<resolver, construction, crashed, targetCache, op, serviceName, r, idx,
                   instances, target, queries, resolved, cache0>>

Step(c) ==
    \/ \E o \in Ops, name \in ServiceNames : Call(c, o, name)
    \/ SrvExchange(c)
    \/ NextRecord(c)
    \/ AExchange(c)
    \/ Finish(c)

\* one caller at a time, as the resolver is documented to be used
Next == Step(1)

Spec == Init /\ [][Next]_vars

----------------------------------------------------------------------------
(* Construction on its own, over server strings of every shape *)

HostV4 == <<"1", "0", ".", "0", ".", "0", ".", "5", "3">>
HostV6 == <<":", ":", "1">>
HostName == <<"c", "o", "n", "s", "u", "l">>
HostShort == <<"1", ".", "2", ".", "3">>
HostBig == <<"2", "5", "6", ".", "0", ".", "0", ".", "1">>
ConfigHosts == {HostV4, HostV6, HostName, HostShort, HostBig, <<>>}
ConfigPorts == { <<"8", "6", "0", "0">>, <<"5", "3">> }
Shapes == {"plain", "bracket", "noport", "bracketnoport", "extra", "openbracket"}
ServerInputs == [host : ConfigHosts, port : ConfigPorts, shape : Shapes]

\* the server string of an input
Render(in) ==
    CASE in.shape = "plain" -> in.host \o <<":">> \o in.port
      [] in.shape = "bracket" -> <<"[">> \o in.host \o <<"]", ":">> \o in.port
      [] in.shape = "noport" -> in.host
      [] in.shape = "bracketnoport" -> <<"[">> \o in.host \o <<"]">>
      [] in.shape = "extra" -> in.host \o <<":">> \o in.port \o <<":">> \o in.port
      [] in.shape = "openbracket" -> <<"[">> \o in.host \o <<":">> \o in.port

Addr1 == <<"1", "0", ".", "0", ".", "0", ".", "1">>
Addr2 == <<"1", "0", ".", "0", ".", "0", ".", "2">>
Addr6 == <<"f", "e", "8", "0", ":", ":", "1">>

\* what net.LookupHost can answer for a host: the empty name is never found
LookupAnswers(host) ==
    {NoLookup} \cup
    IF host = <<>> THEN {}
    ELSE { [err |-> Nil, addrs |-> a] :
             a \in { <<>>, <<Addr1>>, <<Addr1, Addr2>>, <<Addr2, Addr1>>, <<Addr6>>,
                     <<Addr6, Addr1>> } }

InitNew ==
    /\ \E in \in ServerInputs :
          /\ config = Render(in)
          /\ lookupHost \in LookupAnswers(in.host)
    /\ newRet = NotConstructed
    /\ dnsServer = <<>>
    /\ dnsSearch = <<>>
    /\ targetCache = <<>>
    /\ NoCalls

Construct ==
    /\ ~newRet.done
    /\ LET d == NewConsulServiceDiscovery(config, lookupHost)
       IN  /\ newRet' = Constructed(d)
           /\ dnsServer' = d.dnsServer
           /\ dnsSearch' = d.dnsSearch
           /\ targetCache' = <<>>
    /\ UNCHANGED <<config, lookupHost, ra, crashed, pc, op, serviceName, r, idx, instances,
                   target, ret, sret, queries, resolved, cache0>>

NextNew == Construct

SpecNew == InitNew /\ [][NextNew]_vars

----------------------------------------------------------------------------
(* Two callers on one resolver, without synchronization *)

SrvResponsesConc == Responses(SrvRRs \cup {CNAME}, MaxConcAnswers)

\* c is at an access of the map: the lookup of resolveTarget for the next SRV
\* record, or the store that follows its A exchange
Reading(c) ==
    /\ pc[c] = "loop"
    /\ idx[c] <= Len(r[c].Answer)
    /\ r[c].Answer[idx[c]].type = "SRV"
Writing(c) == pc[c] = "a"

\* Go maps are not safe for concurrent use: when a store by c overlaps a
\* lookup or a store by another caller, the accesses may take effect one after
\* the other (the steps of the callers) or the runtime may detect the overlap
\* and abort the process (fatal error: concurrent map writes), which ends
\* every caller where it is
MapFault(c) ==
    /\ Writing(c)
    /\ \E d \in Callers \ {c} : Reading(d) \/ Writing(d)
    /\ crashed' = TRUE
    /\ pc' = [d \in Callers |-> "dead"]
    /\ UNCHANGED <<resolver, construction, ra, targetCache, op, serviceName, r, idx, instances, target,
                   ret, sret, queries, resolved, cache0>>

StepConc(c) ==
    \/ Call(c, "DiscoverAllServiceInstances", <<"a", "p", "i">>)
    \/ SrvExchangeFrom(c, SrvResponsesConc)
    \/ NextRecord(c)
    \/ AExchange(c)
    \/ Finish(c)
    \/ MapFault(c)

NextConc == \E c \in Callers : StepConc(c)

SpecConc == Init /\ [][NextConc]_vars

----------------------------------------------------------------------------
(* One caller, the A response of resolveTarget kept for the properties *)

SrvResponsesTrace == Responses(SrvRRs \cup {CNAME}, MaxTraceAnswers)
AResponsesTrace == Responses(ARRs \cup {CNAME}, MaxScan)

\* the A exchange, its response left in ra until the caller's next step
AExchangeTraced(c) ==
    \E resp \in AResponsesTrace :
       AExchangeOn(c, resp) /\ ra' = [ra EXCEPT ![c] = resp]

StepTrace(c) ==
    \/ Call(c, "DiscoverAllServiceInstances", <<"a", "p", "i">>)
    \/ SrvExchangeFrom(c, SrvResponsesTrace)
    \/ NextRecord(c)
    \/ AExchangeTraced(c)
    \/ Finish(c)

NextTrace == StepTrace(1)

SpecTrace == Init /\ [][NextTrace]_vars

----------------------------------------------------------------------------
(* One caller whose steps are taken: every exchange returns, the code runs on *)

SrvResponsesLive == Responses(SrvRRs \cup {CNAME}, MaxLiveAnswers)

SrvExchangeLive(c) == SrvExchangeFrom(c, SrvResponsesLive)

StepLive(c) ==
    \/ \E o \in Ops : Call(c, o, <<"a", "p", "i">>)
    \/ SrvExchangeLive(c)
    \/ NextRecord(c)
    \/ AExchange(c)
    \/ Finish(c)

NextLive == StepLive(1)

\* a call that was made goes on: the transport answers every exchange and the
\* caller's code is run; nothing obliges a caller to call
Fairness ==
    /\ WF_vars(SrvExchangeLive(1))
    /\ WF_vars(NextRecord(1))
    /\ WF_vars(AExchange(1))
    /\ WF_vars(Finish(1))

SpecLive == Init /\ [][NextLive]_vars /\ Fairness

----------------------------------------------------------------------------
(* Vocabulary of the properties *)

\* caller c is back from DiscoverAllServiceInstances
Returned(c) == pc[c] = "idle" /\ ret[c].done

\* the SRV exchange of c's call gave a response with the success code
SrvSucceeded(c) == r[c].err = Nil /\ r[c].Rcode = RcodeSuccess

IsIndexOfSrv(c, i) == r[c].Answer[i].type = "SRV"

\* the positions of the SRV records in c's SRV answer, ascending
SrvPositions(c) ==
    SelectSeq([i \in 1..Len(r[c].Answer) |-> i], LAMBDA i : IsIndexOfSrv(c, i))

\* the positions of the SRV records whose target did not resolve
FailedPositions(c) ==
    SelectSeq(SrvPositions(c), LAMBDA i : i <= Len(resolved[c]) /\ resolved[c][i].err # Nil)

\* the instance the SRV record at position i stands for
InstanceOf(c, i) ==
    [Ip |-> IPString(resolved[c][i].ip), Port |-> Itoa(r[c].Answer[i].Port)]

\* the resolutions of hostname t in c's call so far, in order
ResolutionsOf(c, t) ==
    SelectSeq(resolved[c], LAMBDA e : e.called /\ e.target = t)

\* the A queries for hostname t that c's call has sent so far
AQueriesFor(c, t) ==
    Len(SelectSeq(queries[c], LAMBDA q : q.qtype = "A" /\ q.name = Fqdn(t)))

Hostnames == { StripLast(t) : t \in Targets }

H1 == <<"h", "1">>
H2 == <<"h", "2">>

----------------------------------------------------------------------------
(* Properties *)

\* C1: when the SRV response has the success code and all N SRV records'
\* targets resolve, DiscoverAllServiceInstances returns no error and N
\* instances, the k-th being the address resolved for the k-th SRV record's
\* target with that record's port: answer order, whatever the priorities.
C1_AllResolved ==
    \A c \in Callers :
        (Returned(c) /\ SrvSucceeded(c) /\ FailedPositions(c) = <<>>) =>
            /\ ret[c].err = Nil
            /\ Len(resolved[c]) = Len(r[c].Answer)
            /\ Len(ret[c].instances) = Len(SrvPositions(c))
            /\ \A k \in 1..Len(SrvPositions(c)) :
                   ret[c].instances[k] = InstanceOf(c, SrvPositions(c)[k])

\* the example of the specification, the preferred record second
C1_Witness ==
    /\ Returned(1)
    /\ SrvSucceeded(1)
    /\ r[1].Answer = <<SRV(<<"h", "1", ".">>, 8080, 2), SRV(<<"h", "2", ".">>, 8081, 1)>>
    /\ ret[1] = [done |-> TRUE, isNil |-> FALSE, err |-> Nil, instances |->
          << [Ip |-> <<"1", "0", ".", "0", ".", "0", ".", "1">>, Port |-> <<"8", "0", "8", "0">>],
             [Ip |-> <<"1", "0", ".", "0", ".", "0", ".", "2">>, Port |-> <<"8", "0", "8", "1">>] >>]

\* C2: when exactly one of the N SRV records' targets fails to resolve, the
\* call returns no error and N-1 instances: the records before and after the
\* failing one, each resolved, in their answer order.
C2_OneFailed ==
    \A c \in Callers :
        (Returned(c) /\ SrvSucceeded(c) /\ Len(FailedPositions(c)) = 1) =>
            LET f == FailedPositions(c)[1]
                kept == SelectSeq(SrvPositions(c), LAMBDA i : i # f)
            IN  /\ ret[c].err = Nil
                /\ resolved[c][f].err \in TransportErrors \cup {ErrTargetQuery, ErrNoA}
                /\ Len(ret[c].instances) = Len(SrvPositions(c)) - 1
                /\ Len(resolved[c]) = Len(r[c].Answer)
                /\ \A k \in 1..Len(kept) :
                       /\ resolved[c][kept[k]].err = Nil
                       /\ ret[c].instances[k] = InstanceOf(c, kept[k])

\* three SRV records, the second fails, the third is resolved after it
C2_Witness ==
    /\ Returned(1)
    /\ SrvSucceeded(1)
    /\ Len(SrvPositions(1)) = 3
    /\ FailedPositions(1) = <<2>>
    /\ resolved[1][3].queried
    /\ Len(ret[1].instances) = 2
    /\ ret[1].instances[1].Port # ret[1].instances[2].Port

\* C3 as stated: resolving the same hostname twice issues exactly one A
\* query in total.  Here for the first two resolutions of a hostname that was
\* not cached when the call started.
C3_TwiceOneQuery ==
    \A c \in Callers : \A t \in Hostnames :
        (t \notin DOMAIN cache0[c] /\ Len(ResolutionsOf(c, t)) = 2) => AQueriesFor(c, t) = 1

\* C3 as amended: once a resolution of a hostname has succeeded, in this call
\* or in an earlier one, every later resolution of it is a cache hit that
\* returns the stored address without a transport call; so two resolutions of
\* which the first succeeds issue exactly one A query in total.
C3_HitAfterSuccess ==
    \A c \in Callers : \A t \in Hostnames :
        LET res == ResolutionsOf(c, t)
        IN  /\ t \in DOMAIN cache0[c] =>
                /\ AQueriesFor(c, t) = 0
                /\ \A k \in 1..Len(res) :
                       ~res[k].queried /\ res[k].err = Nil /\ res[k].ip = cache0[c][t]
            /\ (t \notin DOMAIN cache0[c] /\ Len(res) >= 1 /\ res[1].err = Nil) =>
                /\ res[1].queried
                /\ AQueriesFor(c, t) = 1
                /\ \A k \in 2..Len(res) :
                       ~res[k].queried /\ res[k].err = Nil /\ res[k].ip = res[1].ip

\* a call that finds one hostname cached by an earlier call and resolves the
\* other one twice
C3_Witness ==
    /\ Returned(1)
    /\ DOMAIN cache0[1] = {H1}
    /\ Len(ResolutionsOf(1, H1)) = 1
    /\ Len(ResolutionsOf(1, H2)) = 2
    /\ ResolutionsOf(1, H2)[1].err = Nil
    /\ AQueriesFor(1, H1) = 0
    /\ AQueriesFor(1, H2) = 1
    /\ Len(ret[1].instances) = 3

\* C4: a transport error on the SRV query is returned as it is, with a nil
\* list, after that one exchange: no A query, no second SRV query, and the
\* cache as it was when the call started.
C4_SrvTransportError ==
    \A c \in Callers :
        (Returned(c) /\ r[c].err # Nil) =>
            /\ ret[c].err = r[c].err
            /\ ret[c].isNil /\ ret[c].instances = <<>>
            /\ Len(queries[c]) = 1 /\ queries[c][1].qtype = "SRV"
            /\ resolved[c] = <<>>
            /\ targetCache = cache0[c]

\* the SRV exchange fails in a call that started with a hostname cached
C4_Witness ==
    /\ Returned(1)
    /\ r[1].err \in TransportErrors
    /\ ret[1].err = r[1].err
    /\ DOMAIN targetCache # {}

\* C5: a non-success response code on the SRV response gives the
\* query-failed error and a nil list, whatever the answer section holds: no
\* record is looked at, no A query is sent, the cache is unchanged.
C5_SrvRcode ==
    \A c \in Callers :
        (Returned(c) /\ r[c].err = Nil /\ r[c].Rcode # RcodeSuccess) =>
            /\ ret[c].err = ErrSrvQuery
            /\ ret[c].isNil /\ ret[c].instances = <<>>
            /\ Len(queries[c]) = 1 /\ queries[c][1].qtype = "SRV"
            /\ idx[c] = 0 /\ resolved[c] = <<>>
            /\ targetCache = cache0[c]

\* a failed response that carries SRV records all the same
C5_Witness ==
    /\ Returned(1)
    /\ r[1].err = Nil /\ r[1].Rcode # RcodeSuccess
    /\ Len(SrvPositions(1)) = MaxAnswers
    /\ ret[1].err = ErrSrvQuery

\* C6: a successful SRV response without SRV records makes
\* DiscoverAllServiceInstances return an empty list that is not nil and no
\* error, and DiscoverService return the no-instance error with empty ip and
\* port.
C6_NoSrvRecords ==
    \A c \in Callers :
        (Returned(c) /\ SrvSucceeded(c) /\ SrvPositions(c) = <<>>) =>
            /\ ret[c].instances = <<>> /\ ~ret[c].isNil
            /\ ret[c].err = Nil
            /\ op[c] = "DiscoverService" =>
                   sret[c] = [done |-> TRUE, ip |-> <<>>, port |-> <<>>, err |-> ErrNoSrv]

C6_Witness ==
    /\ Returned(1)
    /\ SrvSucceeded(1)
    /\ r[1].Answer = <<>>
    /\ op[1] = "DiscoverService"
    /\ sret[1].err = ErrNoSrv

\* C7: DiscoverAllServiceInstances never returns an error together with
\* instances: an error comes from the SRV stage only, before any target is
\* resolved, and after a successful SRV response the call returns no error
\* whatever the A queries gave.
C7_ErrorOrList ==
    \A c \in Callers :
        Returned(c) =>
            /\ ret[c].err # Nil =>
                   ret[c].instances = <<>> /\ ~SrvSucceeded(c) /\ resolved[c] = <<>>
            /\ SrvSucceeded(c) => ret[c].err = Nil /\ ~ret[c].isNil

\* a call whose last A query failed after an instance was produced
C7_Witness ==
    /\ Returned(1)
    /\ SrvSucceeded(1)
    /\ Len(ret[1].instances) >= 1
    /\ Len(resolved[1]) >= 2
    /\ resolved[1][Len(resolved[1])].called
    /\ resolved[1][Len(resolved[1])].err # Nil

\* the positions of the SRV records whose target resolved
ResolvedPositions(c) ==
    SelectSeq(SrvPositions(c), LAMBDA i : i <= Len(resolved[c]) /\ resolved[c][i].err = Nil)

\* C8: DiscoverService returns the ip and port of the first element of the
\* list of DiscoverAllServiceInstances, which is the instance of the first SRV
\* record whose target resolved; it passes an SRV-stage error on unchanged and
\* returns the no-instance error exactly when the SRV query succeeded and the
\* list is empty.
C8_FirstInstance ==
    \A c \in Callers :
        (Returned(c) /\ op[c] = "DiscoverService") =>
            /\ sret[c].done
            /\ ret[c].err # Nil =>
                   sret[c].err = ret[c].err /\ sret[c].ip = <<>> /\ sret[c].port = <<>>
            /\ sret[c].err = ErrNoSrv <=> (SrvSucceeded(c) /\ ret[c].instances = <<>>)
            /\ (ret[c].err = Nil /\ ret[c].instances # <<>>) =>
                   /\ sret[c].err = Nil
                   /\ sret[c].ip = ret[c].instances[1].Ip
                   /\ sret[c].port = ret[c].instances[1].Port
                   /\ ResolvedPositions(c) # <<>>
                   /\ ret[c].instances[1] = InstanceOf(c, ResolvedPositions(c)[1])

\* the first SRV record's target fails, the second record's resolves
C8_Witness ==
    /\ Returned(1)
    /\ op[1] = "DiscoverService"
    /\ SrvSucceeded(1)
    /\ Len(SrvPositions(1)) = 3
    /\ FailedPositions(1) = <<SrvPositions(1)[1]>>
    /\ sret[1].err = Nil
    /\ sret[1].port = Itoa(r[1].Answer[SrvPositions(1)[2]].Port)
    /\ sret[1].port # Itoa(r[1].Answer[SrvPositions(1)[3]].Port)

\* C9: with one caller, a cache entry is never changed and never removed:
\* the first successful resolution of a hostname wins.
C9_FirstWins ==
    [][\A h \in DOMAIN targetCache :
           h \in DOMAIN targetCache' /\ targetCache'[h] = targetCache[h]]_vars

\* both hostnames cached, by different calls, and the older entry used again
C9_Witness ==
    /\ Returned(1)
    /\ DOMAIN cache0[1] = {H1}
    /\ DOMAIN targetCache = {H1, H2}
    /\ targetCache[H1] = cache0[1][H1]
    /\ Len(ResolutionsOf(1, H1)) >= 1

\* a resolution of a hostname sends an A query when the hostname was not cached
\* at the start of c's call and this is its first resolution in the call, or
\* when the resolution before it in the call failed
C10_RequeryInCall(c) ==
    \A t \in Hostnames :
        LET res == ResolutionsOf(c, t)
        IN  /\ (t \notin DOMAIN cache0[c] /\ Len(res) >= 1) => res[1].queried
            /\ \A k \in 1..(Len(res) - 1) : res[k].err # Nil => res[k + 1].queried

\* a step in which resolveTarget returns an error to c
C10_FailureStep(c) ==
    (pc[c] = "a" /\ pc'[c] = "loop" /\ resolved'[c][Len(resolved'[c])].err # Nil) =>
        /\ resolved'[c][Len(resolved'[c])].err \in TransportErrors \cup {ErrTargetQuery, ErrNoA}
        /\ targetCache' = targetCache
        /\ target[c] \notin DOMAIN targetCache'

\* C10: a failed resolution is not cached.  A step in which resolveTarget
\* returns an error (transport error, non-success code, no A record) leaves
\* the cache as it was, without the hostname; and of two consecutive
\* resolutions of a hostname in a call, the second sends an A query when the
\* first failed.
C10_FailureNotCached ==
    [][\A c \in Callers : C10_FailureStep(c) /\ C10_RequeryInCall(c)']_vars

\* a hostname is resolved three times in a call, once for each way to fail
C10_Witness ==
    /\ Returned(1)
    /\ Len(ResolutionsOf(1, H1)) = 3
    /\ ResolutionsOf(1, H1)[1].err \in TransportErrors
    /\ ResolutionsOf(1, H1)[2].err = ErrTargetQuery
    /\ ResolutionsOf(1, H1)[3].err = ErrNoA
    /\ AQueriesFor(1, H1) = 3
    /\ H1 \notin DOMAIN targetCache

\* the server strings that are a well-formed host:port, and the hosts that are
\* IP literals
WellFormed(in) ==
    \/ in.shape = "bracket"
    \/ in.shape = "plain" /\ \A i \in 1..Len(in.host) : in.host[i] # ":"
Literal(in) == in.host \in {HostV4, HostV6}
LookupFails == lookupHost.err # Nil \/ lookupHost.addrs = <<>>

\* C12: construction fails with an error and no resolver when the server string
\* is not a well-formed host:port, or the host is not an IP literal and the lookup
\* errors or returns no address; otherwise the resolver has an empty cache and
\* its server address is the input (IP literal, nothing looked up) or else the
\* first looked-up address joined with the original port.
C12_Construction ==
    newRet.done =>
      \A in \in ServerInputs :
         config = Render(in) =>
           IF ~WellFormed(in) \/ (~Literal(in) /\ LookupFails)
             THEN /\ newRet.err # Nil
                  /\ newRet.isNil
                  /\ dnsServer = <<>> /\ dnsSearch = <<>> /\ targetCache = <<>>
             ELSE /\ newRet.err = Nil
                  /\ ~newRet.isNil
                  /\ targetCache = <<>>
                  /\ dnsSearch = ServiceConsul
                  /\ IF Literal(in)
                       THEN dnsServer = config /\ newRet.lookups = <<>>
                       ELSE /\ newRet.lookups = <<in.host>>
                            /\ LET first == lookupHost.addrs[1]
                               IN  dnsServer =
                                     IF \E i \in 1..Len(first) : first[i] = ":"
                                       THEN <<"[">> \o first \o <<"]", ":">> \o in.port
                                       ELSE first \o <<":">> \o in.port

\* a host name was looked up, two addresses came back, and the resolver uses the
\* first of them
C12_Witness ==
    /\ newRet.done /\ ~newRet.isNil
    /\ config = HostName \o <<":", "5", "3">>
    /\ lookupHost.addrs = <<Addr2, Addr1>>
    /\ dnsServer = Addr2 \o <<":", "5", "3">>

\* the position of the first A record of an answer section that has one
FirstAPosition(answer) ==
    CHOOSE k \in 1..Len(answer) :
       answer[k].type = "A" /\ \A j \in 1..(k - 1) : answer[j].type # "A"

\* the step is a cache miss of resolveTarget answered by a success-coded
\* response that holds an A record
MissAnswered(c) ==
    /\ pc[c] = "a" /\ pc'[c] = "loop"
    /\ ra'[c].err = Nil /\ ra'[c].Rcode = RcodeSuccess
    /\ \E k \in 1..Len(ra'[c].Answer) : ra'[c].Answer[k].type = "A"

\* C13: on a cache miss answered by a success-coded A response, resolveTarget
\* returns the address of the first A record in answer order (records of other
\* types before it are skipped, A records after it are ignored) and stores
\* exactly that address under the hostname without its trailing dot, leaving
\* the rest of the cache as it was.
C13_FirstARecord ==
    [][MissAnswered(1) =>
         LET answer == ra'[1].Answer
             ip == answer[FirstAPosition(answer)].A
             srv == r[1].Answer[idx[1]]
             bare == SubSeq(srv.Target, 1, Len(srv.Target) - 1)
         IN  /\ target[1] \notin DOMAIN targetCache
             /\ srv.Target = bare \o <<".">>
             /\ resolved'[1][Len(resolved'[1])] =
                  [called |-> TRUE, target |-> bare, queried |-> TRUE, ip |-> ip,
                   err |-> Nil]
             /\ DOMAIN targetCache' = DOMAIN targetCache \cup {bare}
             /\ targetCache'[bare] = ip
             /\ \A h \in DOMAIN targetCache : targetCache'[h] = targetCache[h]
             /\ queries'[1][Len(queries'[1])].name = srv.Target]_vars

\* the response had a record of another type, then two A records, and the
\* address of the first of the two is the one returned and cached
C13_Witness ==
    /\ pc[1] = "loop"
    /\ ra[1].err = Nil /\ ra[1].Rcode = RcodeSuccess
    /\ ra[1].Answer = <<CNAME, A(<<10, 0, 0, 2>>), A(<<10, 0, 0, 1>>)>>
    /\ target[1] = H1
    /\ H1 \in DOMAIN targetCache /\ targetCache[H1] = <<10, 0, 0, 2>>
    /\ resolved[1][Len(resolved[1])].ip = <<10, 0, 0, 2>>

\* the caller is at a record of its SRV answer that is not an SRV record
AtNonSrv(c) ==
    pc[c] = "loop" /\ idx[c] <= Len(r[c].Answer) /\ r[c].Answer[idx[c]].type # "SRV"

\* what the records processed so far have contributed
OnlySrvContributes(c) ==
    /\ Len(instances[c]) <= Len(SrvPositions(c))
    /\ Len(queries[c]) <= 1 + Len(SrvPositions(c))
    /\ pc[c] = "a" => r[c].Answer[idx[c]].type = "SRV"
    /\ \A i \in 1..Len(resolved[c]) :
          resolved[c][i].called <=> r[c].Answer[i].type = "SRV"
    /\ Returned(c) /\ SrvSucceeded(c) =>
          /\ Len(resolved[c]) = Len(r[c].Answer)
          /\ Len(ret[c].instances) <= Len(SrvPositions(c))
          /\ ret[c].instances =
               [k \in 1..Len(ResolvedPositions(c)) |-> InstanceOf(c, ResolvedPositions(c)[k])]

\* C14: only the SRV records of a successful SRV response contribute to the
\* result of DiscoverAllServiceInstances: a record of another type gives no
\* instance, no A query and no cache change, the SRV records around it are
\* processed as without it, and the instances returned are never more than the
\* SRV records of the answer.
C14_OnlySrvRecords ==
    /\ [](pc[1] # "idle" \/ ret[1].done => (SrvSucceeded(1) => OnlySrvContributes(1)))
    /\ [][AtNonSrv(1) =>
            /\ targetCache' = targetCache
            /\ queries' = queries
            /\ instances' = instances
            /\ pc'[1] = "loop"]_vars

\* a call returned two instances from an answer of SRV, CNAME, SRV
C14_Witness ==
    /\ Returned(1) /\ SrvSucceeded(1)
    /\ Len(r[1].Answer) = 3
    /\ r[1].Answer[1].type = "SRV" /\ r[1].Answer[2] = CNAME /\ r[1].Answer[3].type = "SRV"
    /\ Len(ret[1].instances) = 2
    /\ Len(queries[1]) = 3

\* the records processed so far for which resolveTarget sent an A query
QueriedPositions(c) ==
    SelectSeq([i \in 1..Len(resolved[c]) |-> i],
              LAMBDA i : resolved[c][i].called /\ resolved[c][i].queried)

\* the caller is at an SRV record whose target is in the cache
AtCachedSrv(c) ==
    /\ pc[c] = "loop" /\ idx[c] <= Len(r[c].Answer)
    /\ r[c].Answer[idx[c]].type = "SRV"
    /\ StripLast(r[c].Answer[idx[c]].Target) \in DOMAIN targetCache

\* the queries of c's call once its SRV exchange is over
OneQueryEach(c) ==
    /\ Len(queries[c]) >= 1
    /\ queries[c][1].qtype = "SRV"
    /\ \A i \in 2..Len(queries[c]) : queries[c][i].qtype = "A"
    /\ ~SrvSucceeded(c) => Len(queries[c]) = 1
    /\ SrvSucceeded(c) =>
          /\ Len(resolved[c]) <= Len(r[c].Answer)
          /\ Len(queries[c]) = 1 + Len(QueriedPositions(c))
          /\ \A k \in 1..Len(QueriedPositions(c)) :
                LET i == QueriedPositions(c)[k]
                IN  /\ r[c].Answer[i].type = "SRV"
                    /\ queries[c][k + 1].name = r[c].Answer[i].Target

\* C15: nothing is retried: a call of DiscoverAllServiceInstances sends exactly
\* one SRV query, before any A query, and at most one A query per SRV record of
\* the answer, none for a record whose target is in the cache when the record is
\* processed, whether the queries succeed or fail.
C15_NothingRetried ==
    /\ [](pc[1] = "srv" => queries[1] = <<>>)
    /\ [](pc[1] \in {"loop", "a"} \/ ret[1].done => OneQueryEach(1))
    /\ [][AtCachedSrv(1) => queries' = queries /\ idx'[1] = idx[1] + 1]_vars
    /\ [][pc[1] = "a" =>
            Len(queries'[1]) = Len(queries[1]) + 1 /\ idx'[1] = idx[1] + 1]_vars

\* three SRV records for one host: the first resolution failed, the second
\* queried again and succeeded, the third was answered from the cache
C15_Witness ==
    /\ Returned(1) /\ SrvSucceeded(1)
    /\ Len(r[1].Answer) = 3
    /\ \A i \in 1..3 : r[1].Answer[i].type = "SRV" /\ r[1].Answer[i].Target = H1 \o <<".">>
    /\ resolved[1][1].err # Nil
    /\ resolved[1][2].queried /\ resolved[1][2].err = Nil
    /\ ~resolved[1][3].queried
    /\ Len(queries[1]) = 3

\* C16: the server address and the search suffix fixed at construction are never
\* modified by an operation, every SRV and A query is sent to that server
\* address, and the cache is the only part of the resolver an operation changes.
C16_PinnedServer ==
    /\ [](/\ dnsServer = NewConsulServiceDiscovery(config, lookupHost).dnsServer
          /\ dnsSearch = ServiceConsul
          /\ \A i \in 1..Len(queries[1]) :
                /\ queries[1][i].server = dnsServer
                /\ queries[1][i].qtype = "SRV" =>
                      queries[1][i].name = serviceName[1] \o dnsSearch \o <<".">>)
    /\ [][dnsServer' = dnsServer /\ dnsSearch' = dnsSearch]_vars

\* a call has sent its SRV query and an A query, both to the server of the
\* construction, and has changed the cache
C16_Witness ==
    /\ Returned(1)
    /\ Len(queries[1]) >= 2
    /\ queries[1][1].server = ConsulAddr /\ queries[1][2].server = ConsulAddr
    /\ queries[1][2].qtype = "A"
    /\ targetCache # cache0[1]
    /\ dnsServer = ConsulAddr

\* the addresses of the A records of a response
AddressesIn(resp) ==
    { resp.Answer[k].A : k \in { j \in 1..Len(resp.Answer) : resp.Answer[j].type = "A" } }

\* the cache entries of the next state that are new or changed
Stored ==
    { h \in DOMAIN targetCache' : h \notin DOMAIN targetCache \/ targetCache'[h] # targetCache[h] }

\* C17: with a single caller, when DiscoverAllServiceInstances returns a list,
\* the target of the SRV record behind each instance is a cache key and the
\* instance's ip is the address cached for it; and every cache entry holds an
\* address the transport returned in an A record for a query on that hostname.
C17_CacheBacksInstances ==
    /\ [](Returned(1) /\ ~ret[1].isNil =>
            /\ Len(ret[1].instances) = Len(ResolvedPositions(1))
            /\ \A k \in 1..Len(ret[1].instances) :
                  LET srv == r[1].Answer[ResolvedPositions(1)[k]]
                      host == SubSeq(srv.Target, 1, Len(srv.Target) - 1)
                  IN  /\ host \in DOMAIN targetCache
                      /\ ret[1].instances[k].Ip = IPString(targetCache[host])
                      /\ ret[1].instances[k].Port = Itoa(srv.Port))
    /\ [][\A h \in Stored :
            /\ pc[1] = "a" /\ target[1] = h
            /\ queries'[1] = Append(queries[1], Query("A", h \o <<".">>, dnsServer))
            /\ ra'[1].err = Nil
            /\ targetCache'[h] \in AddressesIn(ra'[1])]_vars
    /\ [][DOMAIN targetCache \subseteq DOMAIN targetCache']_vars

\* a call returned two instances on different hosts, one answered from the
\* cache of an earlier call and one resolved in this call
C17_Witness ==
    /\ Returned(1) /\ ~ret[1].isNil
    /\ Len(ret[1].instances) = 2
    /\ r[1].Answer[1].type = "SRV" /\ r[1].Answer[1].Target = H1 \o <<".">>
    /\ r[1].Answer[2].type = "SRV" /\ r[1].Answer[2].Target = H2 \o <<".">>
    /\ H1 \in DOMAIN cache0[1] /\ H2 \notin DOMAIN cache0[1]
    /\ targetCache[H1] = <<10, 0, 0, 2>> /\ targetCache[H2] = <<10, 0, 0, 1>>
    /\ ret[1].instances[1].Ip = IPString(<<10, 0, 0, 2>>)
    /\ ret[1].instances[2].Ip = IPString(<<10, 0, 0, 1>>)

\* the cache and the queries a call must end with when it walks the records
\* i.. of its SRV answer from cache and queries qs, every SRV record resolved in
\* turn with the outcome the transport gave it
RECURSIVE Walk(_, _, _, _)
Walk(c, i, cache, qs) ==
    IF i > Len(r[c].Answer) THEN [cache |-> cache, queries |-> qs]
    ELSE LET a == r[c].Answer[i]
             host == SubSeq(a.Target, 1, Len(a.Target) - 1)
         IN  IF a.type # "SRV" \/ host \in DOMAIN cache THEN Walk(c, i + 1, cache, qs)
             ELSE Walk(c, i + 1,
                       IF resolved[c][i].err = Nil
                         THEN [h \in DOMAIN cache \cup {host} |->
                                 IF h = host THEN resolved[c][i].ip ELSE cache[h]]
                         ELSE cache,
                       Append(qs, [qtype |-> "A", name |-> a.Target, server |-> dnsServer]))

\* the SRV query of c's call
SrvQueryOf(c) ==
    [qtype |-> "SRV", name |-> serviceName[c] \o dnsSearch \o <<".">>, server |-> dnsServer]

\* what c's call has done to the transport and to the cache is what the service
\* name, the responses and the cache at its start determine
FullEffect(c) ==
    IF SrvSucceeded(c)
      THEN /\ Len(resolved[c]) = Len(r[c].Answer)
           /\ queries[c] = Walk(c, 1, cache0[c], <<SrvQueryOf(c)>>).queries
           /\ targetCache = Walk(c, 1, cache0[c], <<SrvQueryOf(c)>>).cache
      ELSE queries[c] = <<SrvQueryOf(c)>> /\ targetCache = cache0[c]

\* C18: DiscoverService has the same effect on the transport and on the cache as
\* DiscoverAllServiceInstances for the same name and the same responses: it
\* resolves every SRV target of the response, with an A query for each one not
\* in the cache and every success cached, and does not stop at the first
\* resolved target.
C18_SameEffect ==
    \A o \in Ops : Returned(1) /\ op[1] = o => FullEffect(1)

\* DiscoverService returned the instance of the first of two SRV records, and
\* the second target was queried and cached all the same
C18_Witness ==
    /\ Returned(1) /\ op[1] = "DiscoverService" /\ SrvSucceeded(1)
    /\ sret[1].done /\ sret[1].err = Nil
    /\ Len(r[1].Answer) = 2
    /\ r[1].Answer[1].type = "SRV" /\ r[1].Answer[1].Target = H1 \o <<".">>
    /\ r[1].Answer[2].type = "SRV" /\ r[1].Answer[2].Target = H2 \o <<".">>
    /\ cache0[1] = <<>>
    /\ Len(queries[1]) = 3
    /\ H1 \in DOMAIN targetCache /\ H2 \in DOMAIN targetCache
    /\ sret[1].ip = IPString(targetCache[H1])

\* C19: provided every exchange returns, every call of DiscoverService and of
\* DiscoverAllServiceInstances returns, after at most 1 + (number of SRV records
\* of the SRV answer) exchanges, and once it has returned nothing of it is left
\* to run: the resolver moves again only with a new call.
C19_Terminates ==
    /\ (pc[1] # "idle") ~> Returned(1)
    /\ [](Len(queries[1]) <= 1 + Len(SrvPositions(1)))
    /\ [][Returned(1) => pc'[1] = "srv" /\ queries'[1] = <<>> /\ targetCache' = targetCache]_vars

\* a call of DiscoverService has returned after three exchanges, one for the
\* SRV question and one for each of the two SRV records
C19_Witness ==
    /\ Returned(1) /\ op[1] = "DiscoverService"
    /\ Len(SrvPositions(1)) = 2
    /\ Len(queries[1]) = 3

\* C11: when two callers run discovery at once on one resolver, the cache is
\* not harmed: the value first stored for a hostname is the one that stays (a
\* later write of the other caller stores the same value).
C11_FirstValueStays ==
    [][\A h \in DOMAIN targetCache :
           h \in DOMAIN targetCache' /\ targetCache'[h] = targetCache[h]]_vars

====
